---- MODULE Spec2Model ----
(***************************************************************************)
(* A model of the sccache client transport: connect_with_retry and         *)
(* ServerConnection::request (src/src/client.rs) and the SocketAddr text   *)
(* form (src/src/net.rs).                                                  *)
(*                                                                         *)
(* Bytes are naturals 0..255.  A text is a sequence of code points.        *)
(* Results are records with a "tag" field ("none", "Ok" or "Err").         *)
(***************************************************************************)
EXTENDS Integers, Sequences, FiniteSets, TLC

(* ------------------------------ bounds -------------------------------- *)

\* Longest serialized request message, in bytes.
MaxMsgLen == 2

\* Capacity of BufWriter / BufReader (std's DEFAULT_BUF_SIZE, scaled down to
\* the size of the frames of the model).
BufCap == 2

\* The peer sends at most this many bytes on the connection.
MaxPeerBytes == 3

\* Calls of request made on one ServerConnection.
MaxCalls == 2

\* The "sane maximum" for a received length prefix (spec section 7).
SaneMax == 2

\* Longest path or abstract name of an address, in bytes.
MaxAddrLen == 3

\* Longest text given to SocketAddr::parse, in characters.
MaxTextLen == 3

\* Connection handles that exist at most, the two Connections included.
MaxHandles == 3

\* Bytes written on the handles, and bytes the peers send, at most.
MaxWrites == 2
MaxPeerSends == 2

\* Acceptors bound at most, and connections made to them at most.
MaxListeners == 2
MaxConns == 2

(* ------------------------- program constants -------------------------- *)

\* retry(10, 1, ...): the number of tries and the wait between them.
Tries == 10
Wait == 1

\* read_raw_varint32 reads a base-128 varint and keeps 32 bits.
VarintBase == 128
MaxVarintBytes == 10

(* ------------------------------ values -------------------------------- *)

NoValue == [tag |-> "none"]

\* ProtobufError::IoError(e)
IoError(why) == [tag |-> "Err", variant |-> "IoError", detail |-> why]

\* ProtobufError::WireError(..)
WireError(why) == [tag |-> "Err", variant |-> "WireError", detail |-> why]

\* io::Error of one connect attempt, as the operating system reports it.
ConnErrKinds == {"ConnectionRefused", "TimedOut"}
OsError(kind) == [tag |-> "Err", kind |-> kind, msg |-> "os error"]

\* io::Error::new(io::ErrorKind::TimedOut, "Connection to server timed out")
TimedOutError ==
    [tag |-> "Err", kind |-> "TimedOut", msg |-> "Connection to server timed out"]

\* Ok(ServerConnection { stream : stream })
OkConn(s) == [tag |-> "Ok", stream |-> s]

Min(a, b) == IF a < b THEN a ELSE b

RECURSIVE Pow(_, _)
Pow(b, n) == IF n = 0 THEN 1 ELSE b * Pow(b, n - 1)

Take(s, n) == SubSeq(s, 1, n)
Drop(s, n) == SubSeq(s, n + 1, Len(s))


\* The base-128 varint of n, low group first (CodedOutputStream::write_raw_varint32).
RECURSIVE Varint(_)
Varint(n) ==
    IF n < VarintBase
    THEN <<n>>
    ELSE <<(n % VarintBase) + VarintBase>> \o Varint(n \div VarintBase)

\* A write of the message alone (write_to_writer): no length before it.
Frame_NoPrefix(m) == m

\* write_length_delimited_to: the length of the message, then the message.
Frame(m) == Varint(Len(m)) \o m

\* The serialized request messages of the model: one of each length, its
\* bytes all different.
ReqMsgs == {[i \in 1..n |-> 10 + i] : n \in 0..MaxMsgLen}

\* Bytes the peer may send: 0, 1, 2 are lengths and payload bytes, 128 is a
\* varint group with the continuation bit set.
PeerBytes == {0, 1, 2, 128}

\* parse_from_bytes::<ServerResponse>: the schema is outside the repository; a
\* payload holding a zero tag or an unfinished varint is malformed.
Malformed(p) == \E i \in DOMAIN p : p[i] = 0 \/ p[i] >= VarintBase
ParseFromBytes(p) ==
    IF Malformed(p)
    THEN WireError("malformed message")
    ELSE [tag |-> "Ok", variant |-> "ServerResponse", detail |-> p]

VARIABLES
    \* connect_with_retry
    cpc,         \* position in connect_with_retry / retry
    try,         \* retry's loop counter
    value,       \* the value of the last connect_to_server call
    retryRes,    \* what retry returned
    connResult,  \* what connect_with_retry returned
    attempts,    \* connect_to_server calls made so far
    delays,      \* sleeps made so far
    outcomes,    \* per attempt: "ok" or the error kind
    openStreams, \* TcpStreams that exist
    \* ServerConnection
    stream,      \* ServerConnection.stream: the owned handle (0: none)
    liveClones,  \* handles made by try_clone that are not dropped yet
    clonesMade,  \* try_clone calls that succeeded in the current call
    \* request
    pc,          \* position in request
    req,         \* the serialized request message
    wpend,       \* frame bytes not yet handed to the BufWriter
    wbuf,        \* the BufWriter's buffer
    flushCtx,    \* who runs flush_buf: "write" or "drop"
    err,         \* the error the write statement is returning, if any
    sent,        \* bytes of this call that reached the connection
    rbuf,        \* the BufReader's buffer
    rxTaken,     \* bytes this call took from the connection
    vval, vcnt,  \* read_raw_varint32: value so far, bytes read so far
    len,         \* the length prefix read
    buf,         \* bytes read into the receive buffer so far
    bufSize,     \* size of the receive buffer (-1: not allocated)
    result,      \* what request returns / returned
    calls,       \* calls of request that returned
    failedAt,    \* where the first operation on the connection failed in this
                 \* call ("none": none failed)
    ioAfterFail, \* a write or read was attempted after that failure
    \* the connection, seen from the client
    inbound,     \* bytes the peer sent that no read has taken yet
    peerOpen,    \* the peer has not closed its end
    peerCount,   \* bytes the peer sent so far
    \* SocketAddr
    apc,         \* position in format-then-parse
    addr,        \* the address given
    text,        \* its text
    parsed,      \* what parse made of the text
    \* Connection handles and their sockets
    handles,     \* per handle: the socket it refers to
    origin,      \* per handle: the Connection it was cloned from (itself if none)
    cloneRes,    \* what the last try_clone returned
    toPeer,      \* per socket: the bytes written to it, in order, each with its handle
    fromPeer,    \* per socket: bytes its peer sent that no read has taken yet
    peerLog,     \* per socket: all the bytes its peer sent
    taken,       \* per socket: the bytes read from it, in order, each with its handle
    wlog,        \* per handle: the bytes written on it
    rlog,        \* per handle: the bytes read on it
    nWrites,     \* writes made so far
    \* Acceptors
    lsock,       \* per acceptor: the name its listening socket is bound to
    laddr,       \* per acceptor: what local_addr returned (NoAddr: not called)
    lqueue,      \* per acceptor: connections made to it and not accepted yet
    laccepted,   \* per acceptor: the connections accept returned, in order
    conns,       \* per connect call: whose local_addr it used, where it arrived
    \* a server that answers each request once
    srvPast,     \* bytes that reached the connection in the calls before this one
    srvPos,      \* how many bytes of the connection the server has read
    srvCount,    \* requests the server has answered
    srvOut,      \* response bytes the server wrote that have not arrived yet
    allOk,       \* every call before the current one returned a response
    writesOk     \* no write failed in a call before the current one

\* Time slept so far.
Elapsed == delays * Wait

connVars ==
    <<cpc, try, value, retryRes, connResult, attempts, delays, outcomes, openStreams>>
hVars == <<stream, liveClones, clonesMade>>
wVars == <<wpend, wbuf, flushCtx, err, sent>>
rVars == <<rbuf, rxTaken, vval, vcnt, len, buf, bufSize>>
gVars == <<failedAt, ioAfterFail>>
netVars == <<inbound, peerOpen, peerCount>>
reqVars == <<hVars, pc, req, wVars, rVars, result, calls, gVars, netVars>>
reqRest == <<liveClones, clonesMade, pc, req, wVars, rVars, result, calls, gVars, netVars>>

addrVars == <<apc, addr, text, parsed>>

cloneVars == <<handles, origin, cloneRes, toPeer, fromPeer, peerLog, taken, wlog, rlog, nWrites>>
bindVars == <<lsock, laddr, lqueue, laccepted, conns>>
srvVars == <<srvPast, srvPos, srvCount, srvOut, allOk, writesOk>>
extVars == <<cloneVars, bindVars, srvVars>>

vars == <<connVars, reqVars, addrVars, extVars>>

(* ------------------------ connect_with_retry -------------------------- *)

ConnInit ==
    /\ cpc = "retry_loop"
    /\ try = 0
    /\ value = NoValue
    /\ retryRes = NoValue
    /\ connResult = NoValue
    /\ attempts = 0
    /\ delays = 0
    /\ outcomes = << >>
    /\ openStreams = {}

\* retry's loop head: give up once `tries` values were tried.
RetryGiveUp ==
    /\ cpc = "retry_loop"
    /\ try = Tries
    /\ retryRes' = [tag |-> "Err", msg |-> "reached last try without condition match"]
    /\ cpc' = "match"
    /\ UNCHANGED <<try, value, connResult, attempts, delays, outcomes, openStreams, reqVars, addrVars, extVars>>

\* A retry that starts the next attempt while the previous one is still
\* connecting: two connect_to_server calls are made in one step.
ConnectToServer_Overlapping ==
    /\ cpc = "retry_loop"
    /\ try < Tries
    /\ attempts' = attempts + 2
    /\ value' = OkConn(attempts + 2)
    /\ openStreams' = openStreams \cup {attempts + 1, attempts + 2}
    /\ outcomes' = Append(Append(outcomes, "ok"), "ok")
    /\ cpc' = "condition"
    /\ UNCHANGED <<try, retryRes, connResult, delays, reqVars, addrVars, extVars>>

\* value_fn: connect_to_server(port).  The stream of attempt k has id k.
ConnectToServer ==
    /\ cpc = "retry_loop"
    /\ try < Tries
    /\ attempts' = attempts + 1
    /\ \/ /\ value' = OkConn(attempts + 1)
          /\ openStreams' = openStreams \cup {attempts + 1}
          /\ outcomes' = Append(outcomes, "ok")
       \/ \E k \in ConnErrKinds :
             /\ value' = OsError(k)
             /\ openStreams' = openStreams
             /\ outcomes' = Append(outcomes, k)
    /\ cpc' = "condition"
    /\ UNCHANGED <<try, retryRes, connResult, delays, reqVars, addrVars, extVars>>

\* A retry whose condition is negated: a successful value is slept on and
\* retried.
ConditionHolds_Negated ==
    /\ cpc = "condition"
    /\ value.tag = "Ok"
    /\ delays' = delays + 1
    /\ try' = try + 1
    /\ cpc' = "retry_loop"
    /\ UNCHANGED <<value, retryRes, connResult, attempts, outcomes, openStreams, reqVars, addrVars, extVars>>

\* condition_fn: |res| res.is_ok()
ConditionHolds ==
    /\ cpc = "condition"
    /\ value.tag = "Ok"
    /\ retryRes' = [tag |-> "Ok", value |-> value]
    /\ cpc' = "match"
    /\ UNCHANGED <<try, value, connResult, attempts, delays, outcomes, openStreams, reqVars, addrVars, extVars>>

\* A retry that does not sleep after its last try.
RetrySleep_SkipsLast ==
    /\ cpc = "condition"
    /\ value.tag # "Ok"
    /\ delays' = IF try + 1 = Tries THEN delays ELSE delays + 1
    /\ try' = try + 1
    /\ cpc' = "retry_loop"
    /\ UNCHANGED <<value, retryRes, connResult, attempts, outcomes, openStreams, reqVars, addrVars, extVars>>

\* The condition failed: sleep `wait`, count the try, loop.
RetrySleep ==
    /\ cpc = "condition"
    /\ value.tag # "Ok"
    /\ delays' = delays + 1
    /\ try' = try + 1
    /\ cpc' = "retry_loop"
    /\ UNCHANGED <<value, retryRes, connResult, attempts, outcomes, openStreams, reqVars, addrVars, extVars>>

\* A match that hands the last attempt's error to the caller.
ConnectMatch_LastError ==
    /\ cpc = "match"
    /\ connResult' =
          IF retryRes.tag = "Ok" /\ retryRes.value.tag = "Ok"
          THEN retryRes.value
          ELSE value
    /\ stream' = IF connResult'.tag = "Ok" THEN connResult'.stream ELSE stream
    /\ cpc' = "returned"
    /\ UNCHANGED <<try, value, retryRes, attempts, delays, outcomes, openStreams, reqRest, addrVars, extVars>>

\* match retry(..) { Ok(Ok(conn)) => Ok(conn), _ => Err(TimedOut) }
ConnectMatch ==
    /\ cpc = "match"
    /\ connResult' =
          IF retryRes.tag = "Ok" /\ retryRes.value.tag = "Ok"
          THEN retryRes.value
          ELSE TimedOutError
    /\ stream' = IF connResult'.tag = "Ok" THEN connResult'.stream ELSE stream
    /\ cpc' = "returned"
    /\ UNCHANGED <<try, value, retryRes, attempts, delays, outcomes, openStreams, reqRest, addrVars, extVars>>

(* ------------------- claims on connect_with_retry --------------------- *)

AllAttemptsFailed == \A i \in DOMAIN outcomes : outcomes[i] # "ok"

\* C1: when every connect attempt fails, connect_with_retry returns after
\* exactly 10 attempts, and what it returns is the error of kind TimedOut it
\* builds itself, never the error of an attempt, whatever kinds those had.
C1_AllFailedTimesOut ==
    (cpc = "returned" /\ AllAttemptsFailed) =>
        /\ attempts = Tries
        /\ Len(outcomes) = Tries
        /\ connResult = TimedOutError
        /\ \A k \in ConnErrKinds : connResult # OsError(k)
        /\ stream = 0

\* C1's case: the call returned after attempts that failed with both kinds of
\* error, the last one with the kind TimedOut itself.
C1_Witness ==
    /\ cpc = "returned"
    /\ AllAttemptsFailed
    /\ \E i \in DOMAIN outcomes : outcomes[i] = "ConnectionRefused"
    /\ outcomes[Len(outcomes)] = "TimedOut"

\* C2: no attempt follows a successful one; and when the call returns after
\* N refused attempts and a successful attempt N+1 (N < 10), it returns Ok
\* with the ServerConnection that wraps the stream of attempt N+1, N+1
\* attempts having been made.
C2_StopsAtFirstSuccess ==
    /\ \A i \in 1..(Len(outcomes) - 1) : outcomes[i] # "ok"
    /\ attempts = Len(outcomes)
    /\ (cpc = "returned" /\ ~AllAttemptsFailed) =>
          /\ Len(outcomes) <= Tries
          /\ outcomes[Len(outcomes)] = "ok"
          /\ connResult = OkConn(Len(outcomes))
          /\ stream = Len(outcomes)
          /\ openStreams = {Len(outcomes)}

\* C2's case: nine attempts were refused and the tenth succeeded.
C2_Witness ==
    /\ cpc = "returned"
    /\ Len(outcomes) = Tries
    /\ outcomes[Tries] = "ok"
    /\ connResult.tag = "Ok"


\* C14 (as stated): when all ten attempts fail there are exactly nine delays,
\* none of them after the last failed attempt.
C14_NineDelays ==
    (cpc = "returned" /\ AllAttemptsFailed) =>
        /\ delays = Tries - 1
        /\ Elapsed = (Tries - 1) * Wait

\* C14 (amended): retry sleeps after every failed attempt, the last one
\* included: the number of delays is the number of failed attempts that have
\* been judged, and a call whose ten attempts all failed has slept ten times
\* when it returns.
C14_DelayAfterEveryFailure ==
    /\ delays = try
    /\ cpc \in {"retry_loop", "match", "returned"} =>
          delays = Cardinality({i \in DOMAIN outcomes : outcomes[i] # "ok"})
    /\ (cpc = "returned" /\ AllAttemptsFailed) =>
          /\ delays = Tries
          /\ Elapsed = Tries * Wait

C14_Witness ==
    /\ cpc = "returned"
    /\ AllAttemptsFailed
    /\ connResult = TimedOutError
    /\ delays = Tries

\* Attempts whose value retry's condition has not judged yet.
Outstanding ==
    attempts - (try + (IF cpc \in {"match", "returned"} /\ retryRes.tag = "Ok" THEN 1 ELSE 0))

\* C19: the connect attempts are strictly sequential: at most one attempt is
\* outstanding, an attempt starts only after every earlier attempt has
\* returned a failure, and when the call returns no stream of any attempt
\* other than the returned one exists.
C19_AttemptsSequential ==
    /\ Outstanding \in {0, 1}
    /\ attempts = Len(outcomes)
    /\ \A i \in DOMAIN outcomes : i < Len(outcomes) => outcomes[i] # "ok"
    /\ cpc = "returned" =>
          openStreams = (IF connResult.tag = "Ok" THEN {connResult.stream} ELSE {})

C19_Witness ==
    /\ cpc = "returned"
    /\ attempts = 3
    /\ outcomes[1] # "ok" /\ outcomes[2] # "ok" /\ outcomes[3] = "ok"
    /\ connResult = OkConn(3)
    /\ openStreams = {3}

(* ------------------------- ServerConnection --------------------------- *)

\* The state of a ServerConnection no request was made on, and of its
\* connection.
ReqIdle ==
    /\ liveClones = {}
    /\ clonesMade = 0
    /\ pc = "idle"
    /\ req = << >>
    /\ wpend = << >>
    /\ wbuf = << >>
    /\ flushCtx = "write"
    /\ err = NoValue
    /\ sent = << >>
    /\ rbuf = << >>
    /\ rxTaken = << >>
    /\ vval = 0
    /\ vcnt = 0
    /\ len = 0
    /\ buf = << >>
    /\ bufSize = -1
    /\ result = NoValue
    /\ calls = 0
    /\ failedAt = "none"
    /\ ioAfterFail = FALSE
    /\ inbound = << >>
    /\ peerOpen = TRUE
    /\ peerCount = 0

\* A failure is noted where it happened, the first one only.
Failed(where) == failedAt' = IF failedAt = "none" THEN where ELSE failedAt

\* A write or a read of the connection is attempted: note one made after a
\* failure.
Attempted == ioAfterFail' = (ioAfterFail \/ failedAt # "none")

\* request(&mut self, request): entry.
Call ==
    /\ pc = "idle"
    /\ stream # 0
    /\ calls < MaxCalls
    /\ \E m \in ReqMsgs :
          /\ req' = m
          /\ wpend' = Frame(m)
    /\ wbuf' = << >>
    /\ flushCtx' = "write"
    /\ err' = NoValue
    /\ sent' = << >>
    /\ rbuf' = << >>
    /\ rxTaken' = << >>
    /\ vval' = 0
    /\ vcnt' = 0
    /\ len' = 0
    /\ buf' = << >>
    /\ bufSize' = -1
    /\ result' = NoValue
    /\ clonesMade' = 0
    /\ failedAt' = "none"
    /\ ioAfterFail' = FALSE
    /\ pc' = "clone_writer"
    /\ UNCHANGED <<stream, liveClones, calls, netVars>>
    /\ UNCHANGED <<connVars, addrVars, extVars>>

\* let writer = try!(self.stream.try_clone().or_else(|e| Err(IoError(e))));
CloneWriter ==
    /\ pc = "clone_writer"
    /\ \/ /\ liveClones' = liveClones \cup {"writer"}
          /\ clonesMade' = clonesMade + 1
          /\ pc' = "buf_write"
          /\ UNCHANGED <<result, failedAt>>
       \/ /\ result' = IoError("try_clone")
          /\ Failed("clone_writer")
          /\ pc' = "done"
          /\ UNCHANGED <<liveClones, clonesMade>>
    /\ UNCHANGED <<stream, req, wVars, rVars, calls, ioAfterFail, netVars>>
    /\ UNCHANGED <<connVars, addrVars, extVars>>

\* write_length_delimited_to_writer(&mut BufWriter::new(writer)): the coded
\* output stream hands the frame to BufWriter::write piece by piece.  A piece
\* that does not fit behind the buffered bytes makes the buffer flush first; a
\* piece as large as the buffer goes straight to the connection (write may
\* take only part of it); a smaller one is buffered.
BufWrite ==
    /\ pc = "buf_write"
    /\ wpend # << >>
    /\ \E k \in 1..Len(wpend) :
          IF wbuf # << >> /\ Len(wbuf) + k > BufCap
          THEN /\ flushCtx' = "write"
               /\ pc' = "flush"
               /\ UNCHANGED <<wpend, wbuf, err, sent, gVars>>
          ELSE IF k >= BufCap
          THEN /\ Attempted
               /\ \/ \E n \in 1..k :
                        /\ sent' = sent \o Take(wpend, n)
                        /\ wpend' = Drop(wpend, n)
                        /\ pc' = "buf_write"
                        /\ UNCHANGED <<err, failedAt>>
                  \/ /\ err' = IoError("write")
                     /\ Failed("write")
                     /\ pc' = "drop_writer"
                     /\ UNCHANGED <<wpend, sent>>
               /\ UNCHANGED <<wbuf, flushCtx>>
          ELSE /\ wbuf' = wbuf \o Take(wpend, k)
               /\ wpend' = Drop(wpend, k)
               /\ pc' = "buf_write"
               /\ UNCHANGED <<flushCtx, err, sent, gVars>>
    /\ UNCHANGED <<hVars, req, rVars, result, calls, netVars>>
    /\ UNCHANGED <<connVars, addrVars, extVars>>

\* The whole frame was handed over: write_length_delimited_to_writer returns
\* Ok(()) without flushing the BufWriter.
WriteReturns ==
    /\ pc = "buf_write"
    /\ wpend = << >>
    /\ pc' = "drop_writer"
    /\ UNCHANGED <<hVars, req, wVars, rVars, result, calls, gVars, netVars>>
    /\ UNCHANGED <<connVars, addrVars, extVars>>

\* BufWriter::flush_buf: write the buffered bytes to the connection until none
\* is left.  An error ends it, the unwritten bytes staying in the buffer.  Run
\* by write, the error is returned; run by drop, it is ignored
\* ("dtors should not panic, so we ignore a failed flush").
FlushBuf ==
    /\ pc = "flush"
    /\ IF wbuf = << >>
       THEN /\ pc' = IF flushCtx = "write" THEN "buf_write" ELSE "writer_dropped"
            /\ UNCHANGED <<wbuf, err, sent, gVars>>
       ELSE /\ Attempted
            /\ \/ \E n \in 1..Len(wbuf) :
                     /\ sent' = sent \o Take(wbuf, n)
                     /\ wbuf' = Drop(wbuf, n)
                     /\ pc' = "flush"
                     /\ UNCHANGED <<err, failedAt>>
               \/ /\ Failed(IF flushCtx = "write" THEN "flush" ELSE "drop_flush")
                  /\ IF flushCtx = "write"
                     THEN /\ err' = IoError("write")
                          /\ pc' = "drop_writer"
                     ELSE /\ err' = err
                          /\ pc' = "writer_dropped"
                  /\ UNCHANGED <<wbuf, sent>>
    /\ UNCHANGED <<hVars, req, wpend, flushCtx, rVars, result, calls, netVars>>
    /\ UNCHANGED <<connVars, addrVars, extVars>>

\* The end of the statement of line 47, reached with Ok or through try!'s
\* return: the temporary BufWriter is dropped, and its drop flushes.
DropWriter ==
    /\ pc = "drop_writer"
    /\ flushCtx' = "drop"
    /\ pc' = "flush"
    /\ UNCHANGED <<hVars, req, wpend, wbuf, err, sent, rVars, result, calls, gVars, netVars>>
    /\ UNCHANGED <<connVars, addrVars, extVars>>

\* The BufWriter is gone, and the writer handle with it.  try! returns the
\* error of the write, if there was one.
WriterDropped ==
    /\ pc = "writer_dropped"
    /\ liveClones' = liveClones \ {"writer"}
    /\ wbuf' = << >>
    /\ IF err.tag = "Err"
       THEN /\ result' = err
            /\ pc' = "done"
       ELSE /\ result' = result
            /\ pc' = "clone_reader"
    /\ UNCHANGED <<stream, clonesMade, req, wpend, flushCtx, err, sent, rVars, calls,
                   gVars, netVars>>
    /\ UNCHANGED <<connVars, addrVars, extVars>>

\* let reader = try!(self.stream.try_clone().or_else(|e| Err(IoError(e))));
\* let mut buf_read = BufReader::new(reader);
CloneReader ==
    /\ pc = "clone_reader"
    /\ \/ /\ liveClones' = liveClones \cup {"reader"}
          /\ clonesMade' = clonesMade + 1
          /\ pc' = "read_len"
          /\ UNCHANGED <<result, failedAt>>
       \/ /\ result' = IoError("try_clone")
          /\ Failed("clone_reader")
          /\ pc' = "done"
          /\ UNCHANGED <<liveClones, clonesMade>>
    /\ UNCHANGED <<stream, req, wVars, rVars, calls, ioAfterFail, netVars>>
    /\ UNCHANGED <<connVars, addrVars, extVars>>

\* One read of the connection asking for at most `want` bytes: the bytes it
\* returns (none: the peer closed and nothing is left).
SocketRead(want) == Take(inbound, Min(want, Len(inbound)))

\* (With nothing to take and the peer's end open, a read blocks: no step.)

\* let len = try!({ let mut is = CodedInputStream::from_buffered_reader(..);
\*                  is.read_raw_varint32() });
\* With the BufReader empty the stream refills it from the connection; an end
\* of stream there is the wire error "unexpected EOF", a failed read an I/O
\* error.  Otherwise one byte of the varint is taken from the buffer.  (The
\* value is cut to 32 bits; the lengths of the model stay far below 2^31.)
ReadLen ==
    /\ pc = "read_len"
    /\ IF rbuf = << >>
       THEN /\ Attempted
            /\ \/ /\ inbound # << >>
                  /\ rbuf' = SocketRead(BufCap)
                  /\ inbound' = Drop(inbound, Len(SocketRead(BufCap)))
                  /\ rxTaken' = rxTaken \o SocketRead(BufCap)
                  /\ pc' = "read_len"
                  /\ UNCHANGED <<result, failedAt>>
               \/ /\ inbound = << >>
                  /\ ~peerOpen
                  /\ result' = WireError("unexpected EOF")
                  /\ Failed("read_len_eof")
                  /\ pc' = "done"
                  /\ UNCHANGED <<rbuf, inbound, rxTaken>>
               \/ /\ result' = IoError("read")
                  /\ Failed("read_len")
                  /\ pc' = "done"
                  /\ UNCHANGED <<rbuf, inbound, rxTaken>>
            /\ UNCHANGED <<vval, vcnt, len>>
       ELSE /\ rbuf' = Tail(rbuf)
            /\ vval' = vval + (Head(rbuf) % VarintBase) * Pow(VarintBase, vcnt)
            /\ vcnt' = vcnt + 1
            /\ IF Head(rbuf) < VarintBase
               THEN /\ len' = vval'
                    /\ pc' = "alloc"
                    /\ UNCHANGED result
               ELSE IF vcnt' = MaxVarintBytes
               THEN /\ result' = WireError("malformed varint")
                    /\ pc' = "done"
                    /\ UNCHANGED len
               ELSE /\ pc' = "read_len"
                    /\ UNCHANGED <<len, result>>
            /\ UNCHANGED <<inbound, rxTaken, gVars>>
    /\ UNCHANGED <<hVars, req, wVars, buf, bufSize, calls, peerOpen, peerCount>>
    /\ UNCHANGED <<connVars, addrVars, extVars>>

\* A receive buffer one byte shorter than the length read.
Alloc_OneShort ==
    /\ pc = "alloc"
    /\ bufSize' = IF len > 0 THEN len - 1 ELSE 0
    /\ buf' = << >>
    /\ pc' = "read_exact"
    /\ UNCHANGED <<hVars, req, wVars, rbuf, rxTaken, vval, vcnt, len, result, calls,
                   gVars, netVars>>
    /\ UNCHANGED <<connVars, addrVars, extVars>>

\* let mut buf = vec![0; len as usize];
Alloc ==
    /\ pc = "alloc"
    /\ bufSize' = len
    /\ buf' = << >>
    /\ pc' = "read_exact"
    /\ UNCHANGED <<hVars, req, wVars, rbuf, rxTaken, vval, vcnt, len, result, calls,
                   gVars, netVars>>
    /\ UNCHANGED <<connVars, addrVars, extVars>>

\* try!(buf_read.read_exact(&mut buf).or_else(|e| Err(IoError(e))));
\* read_exact reads until the buffer is full.  BufReader::read copies from its
\* buffer; with the buffer empty it reads the connection, straight into the
\* destination when that is as large as its own buffer.  A read that returns
\* nothing is UnexpectedEof.
ReadExact ==
    /\ pc = "read_exact"
    /\ IF Len(buf) = bufSize
       THEN /\ pc' = "parse"
            /\ UNCHANGED <<rbuf, rxTaken, buf, result, gVars, inbound>>
       ELSE IF rbuf # << >>
       THEN /\ buf' = buf \o Take(rbuf, Min(bufSize - Len(buf), Len(rbuf)))
            /\ rbuf' = Drop(rbuf, Min(bufSize - Len(buf), Len(rbuf)))
            /\ pc' = "read_exact"
            /\ UNCHANGED <<rxTaken, result, gVars, inbound>>
       ELSE /\ Attempted
            /\ \/ /\ inbound # << >>
                  /\ IF bufSize - Len(buf) >= BufCap
                     THEN /\ buf' = buf \o SocketRead(bufSize - Len(buf))
                          /\ inbound' = Drop(inbound, Len(SocketRead(bufSize - Len(buf))))
                          /\ rxTaken' = rxTaken \o SocketRead(bufSize - Len(buf))
                          /\ rbuf' = rbuf
                     ELSE /\ rbuf' = SocketRead(BufCap)
                          /\ inbound' = Drop(inbound, Len(SocketRead(BufCap)))
                          /\ rxTaken' = rxTaken \o SocketRead(BufCap)
                          /\ buf' = buf
                  /\ pc' = "read_exact"
                  /\ UNCHANGED <<result, failedAt>>
               \/ /\ inbound = << >>
                  /\ ~peerOpen
                  /\ result' = IoError("UnexpectedEof")
                  /\ Failed("read_exact_eof")
                  /\ pc' = "done"
                  /\ UNCHANGED <<rbuf, rxTaken, buf, inbound>>
               \/ /\ result' = IoError("read")
                  /\ Failed("read_exact")
                  /\ pc' = "done"
                  /\ UNCHANGED <<rbuf, rxTaken, buf, inbound>>
    /\ UNCHANGED <<hVars, req, wVars, vval, vcnt, len, bufSize, calls, peerOpen, peerCount>>
    /\ UNCHANGED <<connVars, addrVars, extVars>>

\* A parse whose failure is wrapped like the failures of the lines before it.
Parse_AsIoError ==
    /\ pc = "parse"
    /\ result' = IF Malformed(buf) THEN IoError("parse") ELSE ParseFromBytes(buf)
    /\ pc' = "done"
    /\ UNCHANGED <<hVars, req, wVars, rVars, calls, gVars, netVars>>
    /\ UNCHANGED <<connVars, addrVars, extVars>>

\* parse_from_bytes::<ServerResponse>(&mut buf)
Parse ==
    /\ pc = "parse"
    /\ result' = ParseFromBytes(buf)
    /\ pc' = "done"
    /\ UNCHANGED <<hVars, req, wVars, rVars, calls, gVars, netVars>>
    /\ UNCHANGED <<connVars, addrVars, extVars>>

\* A return that keeps the reader handle alive.
Return_KeepsReader ==
    /\ pc = "done"
    /\ liveClones' = liveClones
    /\ rbuf' = << >>
    /\ calls' = calls + 1
    /\ pc' = "idle"
    /\ UNCHANGED <<stream, clonesMade, req, wVars, rxTaken, vval, vcnt, len, buf, bufSize,
                   result, gVars, netVars>>
    /\ UNCHANGED <<connVars, addrVars, extVars>>

\* request returns: its locals (buf_read and the reader handle in it, buf)
\* are dropped.
Return ==
    /\ pc = "done"
    /\ liveClones' = {}
    /\ rbuf' = << >>
    /\ calls' = calls + 1
    /\ pc' = "idle"
    /\ UNCHANGED <<stream, clonesMade, req, wVars, rxTaken, vval, vcnt, len, buf, bufSize,
                   result, gVars, netVars>>
    /\ UNCHANGED <<connVars, addrVars, extVars>>

(* ------------------------------ the peer ------------------------------ *)

\* The peer sends one more byte.
PeerSend ==
    /\ stream # 0
    /\ peerOpen
    /\ peerCount < MaxPeerBytes
    /\ \E b \in PeerBytes : inbound' = Append(inbound, b)
    /\ peerCount' = peerCount + 1
    /\ UNCHANGED <<hVars, pc, req, wVars, rVars, result, calls, gVars, peerOpen>>
    /\ UNCHANGED <<connVars, addrVars, extVars>>

\* The peer closes its end of the connection.
PeerClose ==
    /\ stream # 0
    /\ peerOpen
    /\ peerOpen' = FALSE
    /\ UNCHANGED <<hVars, pc, req, wVars, rVars, result, calls, gVars, inbound, peerCount>>
    /\ UNCHANGED <<connVars, addrVars, extVars>>

(* --------------------------- an echoing peer --------------------------- *)

\* The received bytes seen as a frame: where the length prefix ends (0: it
\* does not end), the length it gives, and the payload bytes that follow it.
PrefixEnd(s) ==
    IF \E i \in DOMAIN s : s[i] < VarintBase
    THEN CHOOSE i \in DOMAIN s :
            /\ s[i] < VarintBase
            /\ \A j \in 1..(i - 1) : s[j] >= VarintBase
    ELSE 0

RECURSIVE VarintValue(_)
VarintValue(s) ==
    IF s = << >>
    THEN 0
    ELSE (Head(s) % VarintBase) + VarintBase * VarintValue(Tail(s))

PrefixLen(s) == VarintValue(Take(s, PrefixEnd(s)))
AfterPrefix(s) == Drop(s, PrefixEnd(s))

TruncatedPrefix(s) == PrefixEnd(s) = 0
TruncatedPayload(s) == PrefixEnd(s) > 0 /\ Len(AfterPrefix(s)) < PrefixLen(s)
CompleteFrame(s) == PrefixEnd(s) > 0 /\ Len(AfterPrefix(s)) >= PrefixLen(s)
Payload(s) == Take(AfterPrefix(s), PrefixLen(s))

\* Serialized messages whose length prefix is one byte, and one whose prefix
\* is two bytes.
LongLen == VarintBase + MaxMsgLen
FrameMsgs == {[i \in 1..n |-> (7 * i) % 256] : n \in {0, 1, MaxMsgLen, LongLen}}

\* request(&mut self, request): entry, for the one call made to an echoing
\* peer.
CallFrame ==
    /\ pc = "idle"
    /\ stream # 0
    /\ calls = 0
    /\ \E m \in FrameMsgs :
          /\ req' = m
          /\ wpend' = Frame(m)
    /\ wbuf' = << >>
    /\ flushCtx' = "write"
    /\ err' = NoValue
    /\ sent' = << >>
    /\ rbuf' = << >>
    /\ rxTaken' = << >>
    /\ vval' = 0
    /\ vcnt' = 0
    /\ len' = 0
    /\ buf' = << >>
    /\ bufSize' = -1
    /\ result' = NoValue
    /\ clonesMade' = 0
    /\ failedAt' = "none"
    /\ ioAfterFail' = FALSE
    /\ pc' = "clone_writer"
    /\ UNCHANGED <<stream, liveClones, calls, netVars>>
    /\ UNCHANGED <<connVars, addrVars, extVars>>

\* The peer waits for a whole frame and sends its bytes back, the next one or
\* all that are left.
EchoPeer ==
    /\ stream # 0
    /\ CompleteFrame(sent)
    /\ peerCount < Len(sent)
    /\ \E k \in {1, Len(sent) - peerCount} :
          /\ inbound' = inbound \o SubSeq(sent, peerCount + 1, peerCount + k)
          /\ peerCount' = peerCount + k
    /\ UNCHANGED <<hVars, pc, req, wVars, rVars, result, calls, gVars, peerOpen>>
    /\ UNCHANGED <<connVars, addrVars, extVars>>

(* ------------------- a server that answers each request -------------- *)

\* The server has received and answered nothing.
SrvIdle ==
    /\ srvPast = << >>
    /\ srvPos = 0
    /\ srvCount = 0
    /\ srvOut = << >>
    /\ allOk = TRUE
    /\ writesOk = TRUE

\* The serialized request of the i-th call: its first byte is i, so that no
\* two calls send the same request.
SrvMsgs(i) == {<<i>> \o [j \in 1..n |-> 10 + j] : n \in 0..(MaxMsgLen - 1)}

\* The payload of the server's response to a request of payload m: the first
\* byte of m, which tells the request, and one more than the length of m.  It
\* is well formed whatever m is.
Resp(m) ==
    <<IF m # << >> /\ m[1] \in 1..(VarintBase - 1) THEN m[1] ELSE VarintBase - 1,
      1 + Len(m)>>

\* The bytes that reached the connection and that the server has not read.
SrvUnread == Drop(srvPast \o sent, srvPos)

\* request(&mut self, request): entry, on a connection to such a server.  The
\* bytes of the calls before stay in the connection.
SrvCall ==
    /\ pc = "idle"
    /\ stream # 0
    /\ calls < MaxCalls
    /\ \E m \in SrvMsgs(calls + 1) :
          /\ req' = m
          /\ wpend' = Frame(m)
    /\ wbuf' = << >>
    /\ flushCtx' = "write"
    /\ err' = NoValue
    /\ sent' = << >>
    /\ rbuf' = << >>
    /\ rxTaken' = << >>
    /\ vval' = 0
    /\ vcnt' = 0
    /\ len' = 0
    /\ buf' = << >>
    /\ bufSize' = -1
    /\ result' = NoValue
    /\ clonesMade' = 0
    /\ failedAt' = "none"
    /\ ioAfterFail' = FALSE
    /\ pc' = "clone_writer"
    /\ srvPast' = srvPast \o sent
    /\ allOk' = (allOk /\ (calls = 0 \/ result.tag = "Ok"))
    /\ writesOk' = (writesOk /\ failedAt \notin {"write", "flush", "drop_flush"})
    /\ UNCHANGED <<stream, liveClones, calls, netVars, srvPos, srvCount, srvOut>>
    /\ UNCHANGED <<connVars, addrVars, cloneVars, bindVars>>

\* The server has a whole request frame: it reads it and writes one response
\* frame.
SrvAnswer ==
    /\ stream # 0
    /\ CompleteFrame(SrvUnread)
    /\ srvPos' = srvPos + PrefixEnd(SrvUnread) + PrefixLen(SrvUnread)
    /\ srvOut' = srvOut \o Frame(Resp(Payload(SrvUnread)))
    /\ srvCount' = srvCount + 1
    /\ UNCHANGED <<srvPast, allOk, writesOk>>
    /\ UNCHANGED <<connVars, reqVars, addrVars, cloneVars, bindVars>>

\* Response bytes arrive at the client, the next one or all that are left.
SrvDeliver ==
    /\ srvOut # << >>
    /\ \E k \in {1, Len(srvOut)} :
          /\ inbound' = inbound \o Take(srvOut, k)
          /\ srvOut' = Drop(srvOut, k)
          /\ peerCount' = peerCount + k
    /\ UNCHANGED <<srvPast, srvPos, srvCount, allOk, writesOk>>
    /\ UNCHANGED <<hVars, pc, req, wVars, rVars, result, calls, gVars, peerOpen>>
    /\ UNCHANGED <<connVars, addrVars, cloneVars, bindVars>>

(* ------------------------- claims on request -------------------------- *)

\* The positions of request at which the read phase is under way.
ReadPhase == {"clone_reader", "read_len", "alloc", "read_exact", "parse"}

\* The failures of the write step.
WriteStepFailures == {"clone_writer", "write", "flush", "drop_flush"}

\* request has its return value: about to return, or returned.
Returning == pc = "done" \/ (pc = "idle" /\ result.tag # "none")

IsIoError(r) == r.tag = "Err" /\ r.variant = "IoError"
IsDecodeError(r) == r.tag = "Err" /\ r.variant = "WireError"


\* C3: once the second clone exists or a byte of the response was taken, the
\* whole request frame has reached the connection, nothing is left in the
\* BufWriter and the writer handle is gone.
C3_WriteCompleteBeforeRead ==
    ("reader" \in liveClones \/ rxTaken # << >> \/ pc \in ReadPhase) =>
        /\ sent = Frame(req)
        /\ wbuf = << >>
        /\ "writer" \notin liveClones

\* C4: after a failure in the write step (the clone, a write, a flush of the
\* BufWriter's bytes) request is never in its read phase, and it returns an
\* I/O error.
C4_WriteFailureFailsCall ==
    failedAt \in WriteStepFailures =>
        /\ pc \notin ReadPhase
        /\ Returning => IsIoError(result)

\* C5: when request, its frame written, returns after the peer closed the
\* stream inside the length prefix, or after a length prefix L and fewer than
\* L payload bytes, it returns an I/O error: no decode error and no Ok.
C5_TruncatedIsIoError ==
    ( /\ Returning
      /\ clonesMade = 2
      /\ sent = Frame(req)
      /\ failedAt \notin WriteStepFailures
      /\ ~peerOpen
      /\ inbound = << >>
      /\ TruncatedPrefix(rxTaken) \/ TruncatedPayload(rxTaken) )
    => IsIoError(result)

\* C6: when request returns after it received a complete frame, it returns a
\* decode error if the payload is not a valid response, a kind other than the
\* I/O error, and Ok with the decoded response if it is one.
C6_DecodeErrorOrResponse ==
    (Returning /\ clonesMade = 2 /\ CompleteFrame(rxTaken)) =>
        /\ Malformed(Payload(rxTaken)) =>
              /\ IsDecodeError(result)
              /\ ~IsIoError(result)
        /\ ~Malformed(Payload(rxTaken)) =>
              /\ result.tag = "Ok"
              /\ result.detail = Payload(rxTaken)

\* C6's case: a complete frame of two payload bytes that are no response was
\* read, and the call is returning the decode error.
C6_Witness ==
    /\ pc = "done"
    /\ CompleteFrame(rxTaken)
    /\ Len(Payload(rxTaken)) = 2
    /\ Malformed(Payload(rxTaken))
    /\ IsDecodeError(result)

\* C7: no receive buffer is larger than the sane maximum: a larger length
\* prefix is rejected with an I/O error before the buffer is allocated.
C7_NoOversizedBuffer ==
    /\ bufSize <= SaneMax
    /\ (Returning /\ clonesMade = 2 /\ PrefixEnd(rxTaken) > 0
            /\ PrefixLen(rxTaken) > SaneMax) => IsIoError(result)

\* C8: the bytes a call wrote to the connection are the start of the request
\* frame, each written once, and no write or read is attempted after an
\* operation on the connection failed.
C8_NoResend ==
    /\ Len(sent) <= Len(Frame(req))
    /\ sent = Take(Frame(req), Len(sent))
    /\ ~ioAfterFail

\* C9: the ServerConnection keeps the handle it was created with, no clone is
\* alive between calls, and a call that returned Ok made exactly two clones.
C9_OwnedHandleKept ==
    /\ stream = connResult.stream
    /\ stream \in openStreams
    /\ liveClones \subseteq {"writer", "reader"}
    /\ pc = "idle" => liveClones = {}
    /\ (Returning /\ result.tag = "Ok") => clonesMade = 2

\* C9's case: the second call on the ServerConnection returned Ok.
C9_Witness ==
    /\ pc = "idle"
    /\ calls = 2
    /\ result.tag = "Ok"
    /\ clonesMade = 2
    /\ liveClones = {}

\* C16: a request that returned a response took from the connection exactly
\* the bytes of one frame, the length prefix and as many payload bytes as it
\* announces; whatever the peer sent after them is still in the connection.
C16_ConsumesOneFrame ==
    (Returning /\ result.tag = "Ok" /\ failedAt = "none") =>
        /\ CompleteFrame(rxTaken)
        /\ Len(rxTaken) = PrefixEnd(rxTaken) + PrefixLen(rxTaken)

\* C18: a clone failure is an I/O error with a fixed effect on the wire.  When
\* the writer clone fails no byte of the request was written; when the reader
\* clone fails the whole request frame was sent and no byte of the response
\* was read.
C18_CloneFailureEffects ==
    /\ (Returning /\ failedAt \in {"clone_writer", "clone_reader"}) => IsIoError(result)
    /\ (Returning /\ result = IoError("try_clone") /\ clonesMade = 0) =>
          sent = << >> /\ rxTaken = << >>
    /\ (Returning /\ result = IoError("try_clone") /\ clonesMade = 1) =>
          sent = Frame(req) /\ rxTaken = << >>

\* The length prefix of a message of n bytes, n below 128 * 128, written out.
ExpectedPrefix(n) ==
    IF n < 128 THEN <<n>> ELSE <<128 + (n % 128), n \div 128>>

\* C15: the bytes request writes for a message m are the base-128 varint of
\* its length followed by m, and reading those bytes back with request's read
\* procedure gives the length of m and then m, byte for byte.
C15_FramingRoundTrip ==
    /\ (pc \in ReadPhase /\ failedAt = "none") => sent = ExpectedPrefix(Len(req)) \o req
    /\ pc \in {"alloc", "read_exact", "parse"} => len = Len(req)
    /\ pc = "read_exact" => buf = Take(req, Len(buf))
    /\ pc = "parse" => buf = req

\* C15's case: a message with a two-byte length prefix was written, echoed and
\* read back whole.
C15_Witness ==
    /\ pc = "parse"
    /\ Len(req) = LongLen
    /\ Take(sent, 2) = <<128 + MaxMsgLen, 1>>
    /\ failedAt = "none"
    /\ buf = req

Nul == 0
Colon == 58
Backslash == 92
LowerX == 120
ReplacementChar == 65533

\* An address: its variant and its data (Net: <<host, port>>; Unix: the bytes
\* of the path; UnixAbstract: the bytes of the name).
NoAddr == [variant |-> "none", data |-> << >>]
NetAddr(h, p) == [variant |-> "Net", data |-> <<h, p>>]
UnixAddr(path) == [variant |-> "Unix", data |-> path]
AbstractAddr(name) == [variant |-> "UnixAbstract", data |-> name]

\* The addresses of the model.  A network address is a host and a port of one
\* digit each, written host:port.  Paths hold no NUL, names hold any byte.
Digits == 0..9
NetParts == {1, 2}
PathBytes == {49, Colon, Backslash, 255}
NameBytes == {Nul, 49, Colon, Backslash, 255}
BytesUpTo(S, n) == UNION {[1..k -> S] : k \in 0..n}

NetAddrs == {NetAddr(h, p) : h \in NetParts, p \in NetParts}
UnixAddrs == {UnixAddr(b) : b \in BytesUpTo(PathBytes, MaxAddrLen)}
AbstractAddrs == {AbstractAddr(b) : b \in BytesUpTo(NameBytes, MaxAddrLen)}

\* std::net::SocketAddr: Display, and FromStr (none: NoAddr).
NetDisplay(d) == <<48 + d[1], Colon, 48 + d[2]>>
NetFromStr(t) ==
    IF Len(t) = 3 /\ t[2] = Colon /\ (t[1] - 48) \in Digits /\ (t[3] - 48) \in Digits
    THEN NetAddr(t[1] - 48, t[3] - 48)
    ELSE NoAddr

\* Path::display: a byte that is no UTF-8 shows as U+FFFD.
DisplayByte(b) == IF b < 128 THEN <<b>> ELSE <<ReplacementChar>>
RECURSIVE PathDisplay(_)
PathDisplay(path) ==
    IF path = << >> THEN << >> ELSE DisplayByte(Head(path)) \o PathDisplay(Tail(path))

\* str::as_bytes, PathBuf::from(s): the UTF-8 bytes of a text.
Utf8Char(c) == IF c < 128 THEN <<c>> ELSE <<239, 191, 189>>
RECURSIVE Utf8(_)
Utf8(t) == IF t = << >> THEN << >> ELSE Utf8Char(Head(t)) \o Utf8(Tail(t))

\* <[u8]>::escape_ascii: \t, \r, \n, \', \" and \\ by name, the other
\* printable bytes as they are, every other byte as \xNN.
HexDigit(d) == IF d < 10 THEN 48 + d ELSE 87 + d
EscapeByte(b) ==
    IF b = 9 THEN <<Backslash, 116>>
    ELSE IF b = 13 THEN <<Backslash, 114>>
    ELSE IF b = 10 THEN <<Backslash, 110>>
    ELSE IF b \in {39, 34, Backslash} THEN <<Backslash, b>>
    ELSE IF b >= 32 /\ b <= 126 THEN <<b>>
    ELSE <<Backslash, LowerX, HexDigit(b \div 16), HexDigit(b % 16)>>
RECURSIVE EscapeAscii(_)
EscapeAscii(name) ==
    IF name = << >> THEN << >> ELSE EscapeByte(Head(name)) \o EscapeAscii(Tail(name))

\* crate::util::ascii_unescape_default: the inverse of escape_ascii; a
\* backslash that starts no escape stays.
IsHex(c) == (c >= 48 /\ c <= 57) \/ (c >= 97 /\ c <= 102)
HexValue(c) == IF c <= 57 THEN c - 48 ELSE c - 87
RECURSIVE AsciiUnescapeDefault(_)
AsciiUnescapeDefault(s) ==
    IF s = << >> THEN << >>
    ELSE IF s[1] = Backslash /\ Len(s) >= 2
    THEN IF s[2] = 116 THEN <<9>> \o AsciiUnescapeDefault(Drop(s, 2))
         ELSE IF s[2] = 114 THEN <<13>> \o AsciiUnescapeDefault(Drop(s, 2))
         ELSE IF s[2] = 110 THEN <<10>> \o AsciiUnescapeDefault(Drop(s, 2))
         ELSE IF s[2] \in {39, 34, Backslash}
         THEN <<s[2]>> \o AsciiUnescapeDefault(Drop(s, 2))
         ELSE IF s[2] = LowerX /\ Len(s) >= 4 /\ IsHex(s[3]) /\ IsHex(s[4])
         THEN <<16 * HexValue(s[3]) + HexValue(s[4])>> \o AsciiUnescapeDefault(Drop(s, 4))
         ELSE <<s[1]>> \o AsciiUnescapeDefault(Tail(s))
    ELSE <<s[1]>> \o AsciiUnescapeDefault(Tail(s))

\* impl fmt::Display for SocketAddr
Format(a) ==
    IF a.variant = "Net" THEN NetDisplay(a.data)
    ELSE IF a.variant = "Unix" THEN PathDisplay(a.data)
    ELSE EscapeAscii(a.data)

\* A parse that takes every text with a colon for a network address, and has
\* no address for one that is not.
ParseAddr_ColonMustBeNet(s) ==
    IF s # << >> /\ s[1] = Nul
    THEN AbstractAddr(AsciiUnescapeDefault(Utf8(s)))
    ELSE IF \E i \in DOMAIN s : s[i] = Colon
    THEN NetFromStr(s)
    ELSE UnixAddr(Utf8(s))

\* SocketAddr::parse
ParseAddr(s) ==
    IF s # << >> /\ s[1] = Nul
    THEN AbstractAddr(AsciiUnescapeDefault(Utf8(s)))
    ELSE IF (\E i \in DOMAIN s : s[i] = Colon) /\ NetFromStr(s).variant = "Net"
    THEN NetFromStr(s)
    ELSE UnixAddr(Utf8(s))

AddrIdle ==
    /\ apc = "none"
    /\ addr = NoAddr
    /\ text = << >>
    /\ parsed = NoAddr

\* addr.to_string()
FormatAddr ==
    /\ apc = "given"
    /\ text' = Format(addr)
    /\ apc' = "formatted"
    /\ UNCHANGED <<addr, parsed, connVars, reqVars, extVars>>

\* SocketAddr::parse(&text)
ParseText ==
    /\ apc = "formatted"
    /\ parsed' = ParseAddr(text)
    /\ apc' = "parsed"
    /\ UNCHANGED <<addr, text, connVars, reqVars, extVars>>

(* ------------------------ claims on SocketAddr ------------------------ *)

\* C10: parsing the text an address formats to gives the address back, for
\* every address of every variant.
C10_ParseFormatRoundTrip == apc = "parsed" => parsed = addr

\* The texts given to parse: any characters, NUL, colon and digits among them.
TextChars == {Nul, 49, Colon, Backslash, ReplacementChar}
Texts == BytesUpTo(TextChars, MaxTextLen)

StartsWithNul(t) == t # << >> /\ t[1] = Nul
HasColon(t) == \E i \in DOMAIN t : t[i] = Colon

\* C11: parse returns an address for every text; the abstract variant exactly
\* for a text that begins with NUL; otherwise the network variant exactly for
\* a text with a colon that is a valid host:port; otherwise the path variant
\* holding the text as it is.
C11_ParseTotalInOrder ==
    apc = "parsed" =>
        /\ parsed.variant \in {"UnixAbstract", "Net", "Unix"}
        /\ parsed.variant = "UnixAbstract" <=> StartsWithNul(text)
        /\ parsed.variant = "Net" <=>
              (~StartsWithNul(text) /\ HasColon(text) /\ NetFromStr(text).variant = "Net")
        /\ parsed.variant = "Net" => parsed = NetFromStr(text)
        /\ parsed.variant = "Unix" => parsed.data = Utf8(text)

\* C11's case: a text with a colon that is no network address was parsed, and
\* is a path.
C11_Witness ==
    /\ apc = "parsed"
    /\ addr = NoAddr
    /\ HasColon(text)
    /\ Len(text) = 3
    /\ parsed = UnixAddr(text)

(* ------------------------------ Acceptor ------------------------------ *)

\* The names a listening socket can be bound to.  A network name is a host,
\* 0 being the wildcard address and the others addresses of this machine, and
\* a port; a requested port 0 is never a name: the system binds a free port
\* instead.  A unix name is a path or an abstract name.
Hosts == {0, 1, 2}
Ports == {7, 8}
InetName(h, p) == [kind |-> "inet", host |-> h, port |-> p, bytes |-> << >>]
PathName(b) == [kind |-> "pathname", host |-> 0, port |-> 0, bytes |-> b]
AbstractName(b) == [kind |-> "abstract", host |-> 0, port |-> 0, bytes |-> b]

BindNames ==
    {InetName(h, p) : h \in Hosts, p \in Ports}
        \cup {PathName(<<47, 97>>), PathName(<<98>>)}
        \cup {AbstractName(<<97>>), AbstractName(<<Nul, 97>>)}

\* Two names that cannot both be bound.
Clash(n, m) ==
    /\ n.kind = m.kind
    /\ IF n.kind = "inet"
       THEN n.port = m.port /\ (n.host = m.host \/ n.host = 0 \/ m.host = 0)
       ELSE n.bytes = m.bytes

\* No acceptor is bound, no connection made.
BindIdle ==
    /\ lsock = << >>
    /\ laddr = << >>
    /\ lqueue = << >>
    /\ laccepted = << >>
    /\ conns = << >>

\* TcpListener::bind / UnixListener::bind succeeded: an acceptor exists.
Bind ==
    /\ Len(lsock) < MaxListeners
    /\ \E n \in BindNames :
          /\ \A l \in DOMAIN lsock : ~Clash(n, lsock[l])
          /\ lsock' = Append(lsock, n)
    /\ laddr' = Append(laddr, NoAddr)
    /\ lqueue' = Append(lqueue, << >>)
    /\ laccepted' = Append(laccepted, << >>)
    /\ UNCHANGED conns
    /\ UNCHANGED <<connVars, reqVars, addrVars, cloneVars, srvVars>>

\* A local_addr for unix listeners built without the abstract-name branch.
LocalAddrOf_NoAbstract(n) ==
    IF n.kind = "inet" THEN NetAddr(n.host, n.port)
    ELSE IF n.kind = "pathname" THEN UnixAddr(n.bytes)
    ELSE UnixAddr(<< >>)

\* Acceptor::local_addr.  TcpListener: local_addr().map(SocketAddr::Net).
\* UnixListener: as_pathname gives Unix, as_abstract_name gives UnixAbstract,
\* and a socket with neither gives Unix with the empty path.
LocalAddrOf(n) ==
    IF n.kind = "inet" THEN NetAddr(n.host, n.port)
    ELSE IF n.kind = "pathname" THEN UnixAddr(n.bytes)
    ELSE IF n.kind = "abstract" THEN AbstractAddr(n.bytes)
    ELSE UnixAddr(<< >>)

LocalAddr ==
    /\ \E l \in DOMAIN lsock :
          /\ laddr[l] = NoAddr
          /\ laddr' = [laddr EXCEPT ![l] = LocalAddrOf(lsock[l])]
    /\ UNCHANGED <<lsock, lqueue, laccepted, conns>>
    /\ UNCHANGED <<connVars, reqVars, addrVars, cloneVars, srvVars>>

\* The name connect asks the system for: TcpStream::connect(addr),
\* UnixStream::connect(p), UnixStream::connect_addr(from_abstract_name(p)).
ConnectName(a) ==
    IF a.variant = "Net" THEN InetName(a.data[1], a.data[2])
    ELSE IF a.variant = "Unix" THEN PathName(a.data)
    ELSE AbstractName(a.data)

\* The listening socket a connection to name n arrives at.  A connection to
\* the wildcard address goes to this machine; a listener on the wildcard
\* address takes the connections to every address of its port.
Reaches(n, m) ==
    /\ n.kind = m.kind
    /\ IF n.kind = "inet"
       THEN /\ n.port = m.port
            /\ m.host = 0 \/ m.host = (IF n.host = 0 THEN 1 ELSE n.host)
       ELSE n.bytes = m.bytes /\ n.bytes # << >>

Listener(n) ==
    IF \E l \in DOMAIN lsock : Reaches(n, lsock[l])
    THEN CHOOSE l \in DOMAIN lsock : Reaches(n, lsock[l])
    ELSE 0

\* connect(&addr) with the address local_addr returned for acceptor l.
Connect ==
    /\ Len(conns) < MaxConns
    /\ \E l \in DOMAIN lsock :
          /\ laddr[l] # NoAddr
          /\ LET to == Listener(ConnectName(laddr[l]))
             IN /\ conns' = Append(conns, [via |-> l, to |-> to,
                                          res |-> IF to = 0 THEN "Err" ELSE "Ok"])
                /\ lqueue' = IF to = 0 THEN lqueue
                             ELSE [lqueue EXCEPT ![to] = Append(@, Len(conns) + 1)]
    /\ UNCHANGED <<lsock, laddr, laccepted>>
    /\ UNCHANGED <<connVars, reqVars, addrVars, cloneVars, srvVars>>

\* Acceptor::accept: the next connection made to this acceptor.
Accept ==
    /\ \E l \in DOMAIN lsock :
          /\ lqueue[l] # << >>
          /\ laccepted' = [laccepted EXCEPT ![l] = Append(@, Head(lqueue[l]))]
          /\ lqueue' = [lqueue EXCEPT ![l] = Tail(@)]
    /\ UNCHANGED <<lsock, laddr, conns>>
    /\ UNCHANGED <<connVars, reqVars, addrVars, cloneVars, srvVars>>

(* ------------------------- claims on Acceptor ------------------------- *)

\* The connect calls that used the address of acceptor l, in their order.
RECURSIVE ViaFrom(_, _)
ViaFrom(l, i) ==
    IF i > Len(conns) THEN << >>
    ELSE (IF conns[i].via = l THEN <<i>> ELSE << >>) \o ViaFrom(l, i + 1)

Sockets == {1, 2}

\* The bytes of a stream that went through handle h, in their order, and all
\* of its bytes.
RECURSIVE Proj(_, _)
Proj(s, h) ==
    IF s = << >> THEN << >>
    ELSE (IF s[1].h = h THEN <<s[1].b>> ELSE << >>) \o Proj(Tail(s), h)

RECURSIVE Bytes(_)
Bytes(s) == IF s = << >> THEN << >> ELSE <<s[1].b>> \o Bytes(Tail(s))

PeerSends == Len(peerLog[1]) + Len(peerLog[2])

\* Handle 1 and handle 2 are the two Connections; nothing was written or read.
CloneIdle ==
    /\ handles = <<1, 2>>
    /\ origin = <<1, 2>>
    /\ cloneRes = "none"
    /\ toPeer = [s \in Sockets |-> << >>]
    /\ fromPeer = [s \in Sockets |-> << >>]
    /\ peerLog = [s \in Sockets |-> << >>]
    /\ taken = [s \in Sockets |-> << >>]
    /\ wlog = << << >>, << >> >>
    /\ rlog = << << >>, << >> >>
    /\ nWrites = 0

\* A try_clone whose handle is on another socket than the one it was called
\* on.
TryClone_OtherEndpoint ==
    /\ Len(handles) < MaxHandles
    /\ \E h \in DOMAIN handles :
          \/ /\ handles' = Append(handles, 3 - handles[h])
             /\ origin' = Append(origin, origin[h])
             /\ wlog' = Append(wlog, << >>)
             /\ rlog' = Append(rlog, << >>)
             /\ cloneRes' = "Ok"
          \/ /\ cloneRes' = "Err"
             /\ UNCHANGED <<handles, origin, wlog, rlog>>
    /\ UNCHANGED <<toPeer, fromPeer, peerLog, taken, nWrites>>
    /\ UNCHANGED <<connVars, reqVars, addrVars, bindVars, srvVars>>

\* Connection::try_clone: TcpStream::try_clone / UnixStream::try_clone give a
\* new handle on the socket of the handle they are called on, or an error.
TryClone ==
    /\ Len(handles) < MaxHandles
    /\ \E h \in DOMAIN handles :
          \/ /\ handles' = Append(handles, handles[h])
             /\ origin' = Append(origin, origin[h])
             /\ wlog' = Append(wlog, << >>)
             /\ rlog' = Append(rlog, << >>)
             /\ cloneRes' = "Ok"
          \/ /\ cloneRes' = "Err"
             /\ UNCHANGED <<handles, origin, wlog, rlog>>
    /\ UNCHANGED <<toPeer, fromPeer, peerLog, taken, nWrites>>
    /\ UNCHANGED <<connVars, reqVars, addrVars, bindVars, srvVars>>

\* std::io::Write on a handle: the byte goes to the peer of the handle's
\* socket.  The k-th byte written is k.
ConnWrite ==
    /\ nWrites < MaxWrites
    /\ \E h \in DOMAIN handles :
          /\ toPeer' = [toPeer EXCEPT ![handles[h]] = Append(@, [h |-> h, b |-> nWrites + 1])]
          /\ wlog' = [wlog EXCEPT ![h] = Append(@, nWrites + 1)]
    /\ nWrites' = nWrites + 1
    /\ UNCHANGED <<handles, origin, cloneRes, fromPeer, peerLog, taken, rlog>>
    /\ UNCHANGED <<connVars, reqVars, addrVars, bindVars, srvVars>>

\* std::io::Read on a handle: the next byte the peer of the handle's socket
\* sent.
ConnRead ==
    /\ \E h \in DOMAIN handles :
          /\ fromPeer[handles[h]] # << >>
          /\ taken' = [taken EXCEPT ![handles[h]] =
                          Append(@, [h |-> h, b |-> Head(fromPeer[handles[h]])])]
          /\ rlog' = [rlog EXCEPT ![h] = Append(@, Head(fromPeer[handles[h]]))]
          /\ fromPeer' = [fromPeer EXCEPT ![handles[h]] = Tail(@)]
    /\ UNCHANGED <<handles, origin, cloneRes, toPeer, peerLog, wlog, nWrites>>
    /\ UNCHANGED <<connVars, reqVars, addrVars, bindVars, srvVars>>

\* The peer of a socket sends a byte: one of its own, or one it received.
ConnPeerSend ==
    /\ PeerSends < MaxPeerSends
    /\ \E s \in Sockets :
          \E b \in {100 + PeerSends + 1} \cup {toPeer[s][i].b : i \in DOMAIN toPeer[s]} :
             /\ fromPeer' = [fromPeer EXCEPT ![s] = Append(@, b)]
             /\ peerLog' = [peerLog EXCEPT ![s] = Append(@, b)]
    /\ UNCHANGED <<handles, origin, cloneRes, toPeer, taken, wlog, rlog, nWrites>>
    /\ UNCHANGED <<connVars, reqVars, addrVars, bindVars, srvVars>>

(* ------------------------ claims on Connection ------------------------ *)

IsPrefix(s, t) == Len(s) <= Len(t) /\ s = SubSeq(t, 1, Len(s))

\* a and b are two handles of the same Connection.
Clones(a, b) == a # b /\ origin[a] = origin[b]

ExtIdle ==
    /\ CloneIdle
    /\ BindIdle
    /\ SrvIdle

\* connect_with_retry, from its call to its return.
Init ==
    /\ ConnInit
    /\ stream = 0
    /\ ReqIdle
    /\ ExtIdle
    /\ AddrIdle

ConnNext ==
    \/ RetryGiveUp
    \/ ConnectToServer
    \/ ConditionHolds
    \/ RetrySleep
    \/ ConnectMatch

Next == ConnNext

Spec == Init /\ [][Next]_vars

\* request on a ServerConnection that connect_with_retry returned after its
\* first attempt succeeded.
ReqInit ==
    /\ cpc = "returned"
    /\ try = 0
    /\ value = OkConn(1)
    /\ retryRes = [tag |-> "Ok", value |-> OkConn(1)]
    /\ connResult = OkConn(1)
    /\ attempts = 1
    /\ delays = 0
    /\ outcomes = <<"ok">>
    /\ openStreams = {1}
    /\ stream = 1
    /\ ReqIdle
    /\ ExtIdle
    /\ AddrIdle

ReqNext ==
    \/ Call
    \/ CloneWriter
    \/ BufWrite
    \/ WriteReturns
    \/ FlushBuf
    \/ DropWriter
    \/ WriterDropped
    \/ CloneReader
    \/ ReadLen
    \/ Alloc
    \/ ReadExact
    \/ Parse
    \/ Return
    \/ PeerSend
    \/ PeerClose

ReqSpec == ReqInit /\ [][ReqNext]_vars

\* An address is formatted, and the text parsed.
AddrInit ==
    /\ ConnInit
    /\ stream = 0
    /\ ReqIdle
    /\ ExtIdle
    /\ apc = "given"
    /\ \/ addr \in AbstractAddrs
       \/ addr \in NetAddrs
       \/ addr \in UnixAddrs
    /\ text = << >>
    /\ parsed = NoAddr

AddrNext ==
    \/ FormatAddr
    \/ ParseText

AddrSpec == AddrInit /\ [][AddrNext]_vars

\* A text is parsed.
ParseInit ==
    /\ ConnInit
    /\ stream = 0
    /\ ReqIdle
    /\ ExtIdle
    /\ apc = "formatted"
    /\ addr = NoAddr
    /\ text \in Texts
    /\ parsed = NoAddr

ParseNext == ParseText

ParseSpec == ParseInit /\ [][ParseNext]_vars

\* Handles of two Connections are cloned, written and read, and the peers
\* send.
CloneInit ==
    /\ ConnInit
    /\ stream = 0
    /\ ReqIdle
    /\ AddrIdle
    /\ CloneIdle
    /\ BindIdle
    /\ SrvIdle

CloneNext ==
    \/ TryClone
    \/ ConnWrite
    \/ ConnRead
    \/ ConnPeerSend

CloneSpec == CloneInit /\ [][CloneNext]_vars

\* Acceptors are bound and asked their address; connections are made to
\* those addresses and accepted.
BindInit ==
    /\ ConnInit
    /\ stream = 0
    /\ ReqIdle
    /\ AddrIdle
    /\ CloneIdle
    /\ BindIdle
    /\ SrvIdle

BindNext ==
    \/ Bind
    \/ LocalAddr
    \/ Connect
    \/ Accept

BindSpec == BindInit /\ [][BindNext]_vars

\* One request on a connection whose peer echoes what it receives.
FrameInit == ReqInit

FrameNext ==
    \/ CallFrame
    \/ CloneWriter
    \/ BufWrite
    \/ WriteReturns
    \/ FlushBuf
    \/ DropWriter
    \/ WriterDropped
    \/ CloneReader
    \/ ReadLen
    \/ Alloc
    \/ ReadExact
    \/ Parse
    \/ Return
    \/ EchoPeer

FrameSpec == FrameInit /\ [][FrameNext]_vars

\* Calls of request, one at a time, on a connection to a server that
\* answers each request it receives with one response.
SrvInit == ReqInit

SrvNext ==
    \/ SrvCall
    \/ CloneWriter
    \/ BufWrite
    \/ WriteReturns
    \/ FlushBuf
    \/ DropWriter
    \/ WriterDropped
    \/ CloneReader
    \/ ReadLen
    \/ Alloc
    \/ ReadExact
    \/ Parse
    \/ Return
    \/ SrvAnswer
    \/ SrvDeliver

SrvSpec == SrvInit /\ [][SrvNext]_vars

====
